---- MODULE Spec2Model ----
(***************************************************************************)
(* Model of pslearn/feature_selection.py: ParticleSwarmFeatureSelectionCV. *)
(*                                                                         *)
(* Probabilities are exact rationals on a grid: the value 1.0 is Unit, and *)
(* the initial draws are multiples of Scale = MaxIter!, so every division  *)
(* (gbest - p) / n_iter of _calculate_velocities is exact.  Scores are in  *)
(* tenths.  Python's None is the empty tuple, a value v that may be None   *)
(* is <<v>>.  A constructor argument is [type, val] so that isinstance     *)
(* can be decided.  Rows and columns are numbered from 0 as pandas does.   *)
(*                                                                         *)
(* Spec is one run.  SpecTraced is the same run with the thresholds it     *)
(* draws recorded; SpecTwin puts beside it a second run that differs in    *)
(* the verbosity only; SpecE2E is the end-to-end scenario.                 *)
(***************************************************************************)
EXTENDS Integers, Sequences, FiniteSets, TLC

\* ---------------------------------------------------------------- bounds
MaxParticles == 2
MaxFeatures == 3
MaxIter == 2
\* the initial probabilities take Levels values, the thresholds NumThresholds
\* (more than Levels, so that a threshold can exceed every probability)
Levels == 2
NumThresholds == 4
\* a "free" collaborator returns a mean score in 0..MaxScore (tenths)
MaxScore == 1
NumSeeds == 32
MaxFitCalls == 2
\* n_particles * n_features * max_iter of a call stays within MaxWork
MaxWork == 8

RECURSIVE Fact(_)
Fact(n) == IF n <= 1 THEN 1 ELSE n * Fact(n - 1)

RECURSIVE Pow(_, _)
Pow(b, e) == IF e = 0 THEN 1 ELSE b * Pow(b, e - 1)

Scale == Fact(MaxIter)
Unit == Scale * Levels

None == <<>>
Some(v) == <<v>>
IsNone(x) == x = <<>>
Val(x) == x[1]

Int_(v) == [type |-> "int", val |-> v]
Other(t) == [type |-> t, val |-> 0]

\* isinstance(x, int) / isinstance(x, str)
IsInt(x) == x.type = "int"
IsStr(x) == x.type = "str"

VARIABLES
  args,                 \* the arguments of the constructor call and of fit
  pc,                   \* position in the program
  error,                \* the exception that ended the call, None if none
  self,                 \* the instance's attributes
  particles,            \* fit: local, the probability matrix
  velocities,           \* fit: local, the velocity matrix
  global_best,          \* fit: local
  global_best_particle, \* fit: local
  i,                    \* _evaluate_performance: row being evaluated
  particle,             \* _evaluate_performance: the decoded subset (local)
  cv_calls,             \* history: the calls cross_val_score received: how
                        \* many, the columns X[:, particle] of the last, and
                        \* whether the last raised
  decoded,              \* history: the best stub score sum(S)/10 of the
                        \* non-empty subsets decoded in the current fit
  counts,               \* history: velocity applications, passes, fit calls
  first,                \* history: the first fit's initial draw and result,
                        \* and whether the cache was emptied after it
  thresholds,           \* history: the values np.random.random() returned
                        \* in the current evaluation, one per row so far;
                        \* None if the run is not traced
  best_decode,          \* history of a traced run: the threshold against
                        \* which the subset of global_best_particle was
                        \* decoded, and the pass that made it the best
  stdout,               \* the number of lines printed so far
  twin                  \* a second run on the same arguments, draws and
                        \* scores, with another verbosity; None if the run
                        \* is not paired

vars == <<args, pc, error, self, particles, velocities, global_best,
          global_best_particle, i, particle, cv_calls, decoded, counts, first,
          thresholds, best_decode, stdout, twin>>

locals == <<particles, velocities, global_best, global_best_particle, i, particle>>
history == <<cv_calls, decoded, counts, first, thresholds, best_decode>>


\* ------------------------------------------------ inputs drawn by Init
NParticlesArgs == {Other("float")} \cup {Int_(v) : v \in -1..MaxParticles}
CvArgs == {Other("float"), Int_(0), Int_(2)}
ScoringArgs == {Other("str"), Other("NoneType")}
MaxIterArgs == {Other("float")} \cup {Int_(v) : v \in -1..MaxIter}
NJobsArgs == {Int_(-1), Other("str")}
VerbosityArgs == {Int_(0), Int_(1), Other("str")}
\* X: a recognised type (a DataFrame is turned into the same ndarray at
\* lines 233-234 and is not drawn separately) or an unrecognised one
XArgs == [type : {"ndarray", "list"}, n_features : 1..MaxFeatures]
\* what cross_val_score does with the estimator: "stub" scores a subset
\* sum(indices)/10 and never fails, "free" may return any score or raise
Estimators == {"stub", "free"}

\* the calls the model makes: every combination of the arguments above whose
\* matrix cells times passes stay within MaxWork
ArgSpace ==
  {a \in [n_particles : NParticlesArgs, estimator : Estimators, cv : CvArgs,
          scoring : ScoringArgs, max_iter : MaxIterArgs, n_jobs : NJobsArgs,
          verbosity : VerbosityArgs, X : XArgs] :
     a.n_particles.val * a.X.n_features * a.max_iter.val <= MaxWork}

\* ------------------------------------------------------ pure functions

\* mutant: the fold count is not checked
ArgsWellTyped_NoCvCheck(a) ==
  /\ IsInt(a.max_iter)
  /\ IsInt(a.n_particles)
  /\ IsInt(a.verbosity)
  /\ IsStr(a.scoring)
  /\ IsInt(a.n_jobs)

\* the isinstance checks of the four constructors
ArgsWellTyped(a) ==
  /\ IsInt(a.max_iter)
  /\ IsInt(a.n_particles)
  /\ IsInt(a.verbosity)
  /\ IsInt(a.cv)
  /\ IsStr(a.scoring)
  /\ IsInt(a.n_jobs)

\* X.shape[1]
NFeatures == args.X.n_features

\* the row labels of an n-row DataFrame
Rows(n) == 0..(n - 1)

\* np.random.random(size=(n_particles, X.shape[1])) under a given seed: the
\* draw is a function of the seed; cell (r, c) takes its level from the
\* seed's binary digit (r*F + c) mod 5 and the digits above it
Seeds == 0..(NumSeeds - 1)
LevelOf(seed, k) == (seed \div Pow(2, k % 5)) % Levels
InitialDraw(seed, n, f) ==
  [r \in Rows(n) |-> [c \in 0..(f - 1) |-> Scale * LevelOf(seed, r * f + c)]]

\* mutant: the shape is taken the wrong way round
Zeros_Transposed(n, f) == [r \in Rows(f) |-> [c \in 0..(n - 1) |-> 0]]

\* np.zeros(particles.shape)
Zeros(n, f) == [r \in Rows(n) |-> [c \in 0..(f - 1) |-> 0]]

\* mutant: the threshold is drawn once in an evaluation and used for
\* every row
ThresholdSet_OncePerPass ==
  IF pc = "evaluate" /\ i > 0 /\ ~ IsNone(thresholds)
  THEN {Val(thresholds)[1]}
  ELSE {(Unit * k) \div NumThresholds : k \in 0..(NumThresholds - 1)}

\* np.random.random(): the thresholds the model draws
ThresholdSet == {(Unit * k) \div NumThresholds : k \in 0..(NumThresholds - 1)}

\* particles += velocities
AddMatrix(p, v) == [r \in DOMAIN p |-> [c \in DOMAIN p[r] |-> p[r][c] + v[r][c]]]

\* tuple(vals[vals >= threshold].index)
RECURSIVE DecodeFrom(_, _, _, _)
DecodeFrom(vals, th, c, f) ==
  IF c >= f THEN <<>>
  ELSE (IF vals[c] >= th THEN <<c>> ELSE <<>>) \o DecodeFrom(vals, th, c + 1, f)

Decode(vals, th) == DecodeFrom(vals, th, 0, NFeatures)

\* mutant: the emptiness test is dropped
IsAnyParticle_Always(S) == TRUE

\* any(particle): some element is truthy, that is a column index other than 0
IsAnyParticle(S) == \E k \in 1..Len(S) : S[k] # 0

\* mutant: an index equals the one-element tuple that holds it
PyIntEqTuple_Unwrapped(n, t) == t = <<n>>

\* Python's == between an int (an element of the bare subset) and a tuple
PyIntEqTuple(n, t) == FALSE

\* Python's == between the bare subset and a stored key (row, subset)
PyTupleEqKey(S, key) ==
  /\ Len(S) = 2
  /\ S[1] = key[1]
  /\ PyIntEqTuple(S[2], key[2])

\* particle not in self.candidates_score
IsNotScored(S, cs) == ~ \E k \in 1..Len(cs) : PyTupleEqKey(S, cs[k].key)

RECURSIVE SumSeq(_)
SumSeq(S) == IF S = <<>> THEN 0 ELSE Head(S) + SumSeq(Tail(S))

\* what cross_val_score(...).mean() can do for the columns S
CrossValOutcomes(S) ==
  IF self.cv < 2 THEN {[ok |-> FALSE, mean |-> 0]}
  ELSE IF self.estimator = "stub" THEN {[ok |-> TRUE, mean |-> SumSeq(S)]}
  ELSE {[ok |-> TRUE, mean |-> m] : m \in 0..MaxScore}
       \cup {[ok |-> FALSE, mean |-> 0]}

\* self.candidates_score[key] = score: a dict keeps a key's first position
HasKey(cs, key) == \E k \in 1..Len(cs) : cs[k].key = key
DictSet(cs, key, score) ==
  IF HasKey(cs, key)
  THEN [k \in 1..Len(cs) |->
          IF cs[k].key = key THEN [key |-> key, score |-> score] ELSE cs[k]]
  ELSE Append(cs, [key |-> key, score |-> score])

\* evaluation_results.max().iloc[0]
MaxScoreOf(cs) == CHOOSE m \in {cs[k].score : k \in 1..Len(cs)} :
                    \A k \in 1..Len(cs) : cs[k].score <= m

\* evaluation_results.idxmax().iloc[0]: the first key holding the maximum
IdxMax(cs) ==
  LET m == MaxScoreOf(cs)
      first_k == CHOOSE k \in 1..Len(cs) :
                   /\ cs[k].score = m
                   /\ \A j \in 1..(k - 1) : cs[j].score # m
  IN cs[first_k].key

\* the test of _update_global_best
IsGlobalBestNotDefined(gb, gbp) == IsNone(gb) /\ IsNone(gbp)

\* mutant: a tie replaces the stored best
IsCurrentParticleBetter_OrEqual(gb, current_best) ==
  IsNone(gb) \/ Val(gb) <= current_best

IsCurrentParticleBetter(gb, current_best) == IsNone(gb) \/ Val(gb) < current_best

\* mutant: the best row is looked up by position and the first row taken
VelocitiesOf_TowardsFirstRow(p, gbp, max_iter) ==
  [r \in DOMAIN p |-> [c \in DOMAIN p[r] |-> (p[0][c] - p[r][c]) \div max_iter]]

\* mutant: the previous velocity is kept as an inertia term
VelocitiesOf_Inertia(p, gbp, max_iter) ==
  LET best_row == p[Val(gbp)[1]]
  IN [r \in DOMAIN p |->
        [c \in DOMAIN p[r] |->
           velocities[r][c] + (best_row[c] - p[r][c]) \div max_iter]]

\* mutant: the divisor is the whole budget, not what is left of it
VelocitiesOf_ByBudget(p, gbp, max_iter) ==
  LET best_row == p[Val(gbp)[1]]
  IN [r \in DOMAIN p |->
        [c \in DOMAIN p[r] |-> (best_row[c] - p[r][c]) \div self.first_iter]]

\* (global_best_row - particles) / max_iter
VelocitiesOf(p, gbp, max_iter) ==
  LET best_row == p[Val(gbp)[1]]
  IN [r \in DOMAIN p |-> [c \in DOMAIN p[r] |-> (best_row[c] - p[r][c]) \div max_iter]]

\* mutant: the probabilities are read from the first row
ProbaOf_FirstRow(p, gbp) ==
  LET S == Val(gbp)[2]
  IN [k \in 1..Len(S) |-> p[0][S[k]]]

\* particles.loc[row, list(subset)]
ProbaOf(p, gbp) ==
  LET row == Val(gbp)[1]
      S == Val(gbp)[2]
  IN [k \in 1..Len(S) |-> p[row][S[k]]]


\* mutant: the type of X is not checked
IsRecognisedX_Any(X) == TRUE

\* isinstance(X, DataFrame) or isinstance(X, ndarray)
IsRecognisedX(X) == X.type \in {"DataFrame", "ndarray"}

\* if self.verbosity: print(...), n times: the lines added to the output
Printed(verbosity, n) == IF verbosity # 0 THEN n ELSE 0

\* mutant: the addition is inside the branch that prints
MoveParticles_WhenVerbose(p, v, verbosity) ==
  IF verbosity # 0 THEN AddMatrix(p, v) ELSE p

\* fit, the head of the loop body: the print guarded by the verbosity, then
\* particles += velocities
MoveParticles(p, v, verbosity) == AddMatrix(p, v)

\* the attributes the four constructors assign
NewInstance(a, verbosity) ==
  [n_particles |-> a.n_particles.val,
   estimator |-> a.estimator,
   cv |-> a.cv.val,
   scoring |-> "scoring",
   n_iter |-> a.max_iter.val,
   first_iter |-> a.max_iter.val,
   n_jobs |-> a.n_jobs.val,
   verbosity |-> verbosity,
   candidates_score |-> <<>>,
   best_score_ |-> None,
   best_features_ |-> None,
   best_proba_ |-> None]


\* ------------------------------------------------------------- states

NoCalls == [n |-> 0, columns |-> <<>>, failed |-> FALSE]

\* no instance yet
Unset ==
  [n_particles |-> 0, estimator |-> "", cv |-> 0, scoring |-> "", n_iter |-> 0,
   first_iter |-> 0, n_jobs |-> 0, verbosity |-> 0, candidates_score |-> <<>>,
   best_score_ |-> None, best_features_ |-> None, best_proba_ |-> None]

NoLocals ==
  /\ particles = <<>>
  /\ velocities = <<>>
  /\ global_best = None
  /\ global_best_particle = None
  /\ i = 0
  /\ particle = <<>>

\* the second run before its constructor is called with the verbosity v
NewTwin(v) ==
  [verbosity |-> v, self |-> Unset, stdout |-> 0, particles |-> <<>>,
   velocities |-> <<>>, global_best |-> None, global_best_particle |-> None,
   particle |-> <<>>]

\* the state before the constructor is called with the arguments a
InitRun(a) ==
  /\ args = a
  /\ pc = "new"
  /\ error = None
  /\ self = Unset
  /\ NoLocals
  /\ cv_calls = NoCalls
  /\ decoded = None
  /\ counts = [applied |-> 0, passes |-> 0, fit_calls |-> 0]
  /\ first = [draw |-> None, result |-> None, reset |-> FALSE]
  /\ best_decode = None
  /\ stdout = 0

InitWith(a) == InitRun(a) /\ thresholds = None /\ twin = None

Init == \E a \in ArgSpace : InitWith(a)

\* mutant: an exception of the collaborator is caught and the call retried
Raise_Retried(kind) ==
  IF kind = "CollaboratorError"
  THEN UNCHANGED <<pc, error>>
  ELSE pc' = "raised" /\ error' = Some(kind)

Raise(kind) ==
  /\ pc' = "raised"
  /\ error' = Some(kind)

\* ParticleSwarmFeatureSelectionCV(...): the isinstance checks, then the
\* attribute assignments
Construct ==
  /\ pc = "new"
  /\ IF ArgsWellTyped(args)
     THEN /\ self' = NewInstance(args, args.verbosity.val)
          /\ twin' = IF IsNone(twin) THEN None
                     ELSE LET t == Val(twin) IN
                          Some([t EXCEPT !.self = NewInstance(args, t.verbosity)])
          /\ pc' = "idle"
          /\ UNCHANGED error
     ELSE /\ Raise("ValueError")
          /\ UNCHANGED <<self, twin>>
  /\ UNCHANGED <<args, locals, history, stdout>>

\* fit, up to the loop: _initialize(X).  A second fit after a finished one
\* is a call on the same instance with the seed reset: it draws what the
\* first call drew.  Its X has the columns of the first call's X and may be
\* of another type.
FitInitialize ==
  /\ pc \in {"idle", "done"}
  /\ counts.fit_calls < MaxFitCalls
  /\ \E X \in [type : {"ndarray", "list"}, n_features : {args.X.n_features}] :
       /\ counts.fit_calls = 0 => X = args.X
       /\ args' = [args EXCEPT !.X = X]
  /\ IF ~ IsRecognisedX(args'.X)
     THEN /\ Raise("ValueError")
          /\ UNCHANGED <<locals, decoded, first, thresholds, best_decode,
                         stdout, twin>>
          /\ counts' = [counts EXCEPT !.fit_calls = @ + 1]
     ELSE IF self.n_particles < 0
     THEN \* np.random.random rejects a negative dimension
          /\ Raise("ValueError")
          /\ UNCHANGED <<locals, decoded, first, thresholds, best_decode>>
          /\ counts' = [counts EXCEPT !.fit_calls = @ + 1]
          /\ stdout' = stdout + Printed(self.verbosity, 2)
          /\ twin' = IF IsNone(twin) THEN None
                     ELSE LET t == Val(twin) IN
                          Some([t EXCEPT !.stdout =
                                  @ + Printed(t.self.verbosity, 2)])
     ELSE \E seed \in Seeds :
          LET draw == InitialDraw(seed, self.n_particles, NFeatures) IN
          /\ counts.fit_calls > 0 => Some(draw) = first.draw
          /\ particles' = draw
          /\ velocities' = Zeros(self.n_particles, NFeatures)
          /\ global_best' = None
          /\ global_best_particle' = None
          /\ UNCHANGED <<i, particle>>
          /\ decoded' = None
          /\ counts' = [applied |-> 0, passes |-> 0,
                        fit_calls |-> counts.fit_calls + 1]
          /\ first' = IF counts.fit_calls = 0
                      THEN [first EXCEPT !.draw = Some(draw)]
                      ELSE first
          /\ thresholds' = IF IsNone(thresholds) THEN None ELSE Some(<<>>)
          /\ best_decode' = None
          /\ stdout' = stdout + Printed(self.verbosity, 2)
          /\ twin' = IF IsNone(twin) THEN None
                     ELSE LET t == Val(twin) IN
                          Some([t EXCEPT
                            !.stdout = @ + Printed(t.self.verbosity, 2),
                            !.particles = InitialDraw(seed, t.self.n_particles,
                                                      NFeatures),
                            !.velocities = Zeros(t.self.n_particles, NFeatures),
                            !.global_best = None,
                            !.global_best_particle = None])
          /\ pc' = "loop"
          /\ error' = None
  /\ UNCHANGED <<self, cv_calls>>

\* while self.n_iter > 0: particles += velocities, and the entry of
\* _evaluate_performance up to its loop
ApplyVelocities ==
  /\ pc = "loop"
  /\ self.n_iter > 0
  /\ particles' = MoveParticles(particles, velocities, self.verbosity)
  /\ counts' = [counts EXCEPT !.applied = @ + 1]
  /\ i' = 0
  /\ stdout' = stdout + Printed(self.verbosity,
                          IF self.n_iter # self.first_iter THEN 2 ELSE 1)
  /\ twin' = IF IsNone(twin) THEN None
             ELSE LET t == Val(twin) IN
                  Some([t EXCEPT
                    !.particles = MoveParticles(t.particles, t.velocities,
                                                t.self.verbosity),
                    !.stdout = @ + Printed(t.self.verbosity,
                                 IF t.self.n_iter # t.self.first_iter
                                 THEN 2 ELSE 1)])
  /\ pc' = IF self.n_particles = 0 THEN "update" ELSE "evaluate"
  /\ UNCHANGED <<args, error, self, velocities, global_best,
                 global_best_particle, particle, cv_calls, decoded, first,
                 thresholds, best_decode>>

\* one iteration of the loop over particles.iterrows().  The second run
\* draws the same threshold and, for the same columns, gets the same score.
EvaluateParticle ==
  /\ pc = "evaluate"
  /\ \E th \in ThresholdSet :
       LET S == Decode(particles[i], th)
           last == (i = self.n_particles - 1)
       IN
       /\ particle' = S
       /\ thresholds' = IF IsNone(thresholds) THEN None
                        ELSE Some(Append(Val(thresholds), th))
       /\ decoded' = IF S = <<>> THEN decoded
                     ELSE IF IsNone(decoded) \/ Val(decoded) < SumSeq(S)
                     THEN Some(SumSeq(S)) ELSE decoded
       /\ IF IsAnyParticle(S) /\ IsNotScored(S, self.candidates_score)
          THEN \E out \in CrossValOutcomes(S) :
               /\ cv_calls' = [n |-> cv_calls.n + 1, columns |-> S,
                                failed |-> ~ out.ok]
               /\ twin' = IF IsNone(twin) THEN None
                          ELSE LET t == Val(twin)
                                   St == Decode(t.particles[i], th)
                               IN
                               Some([t EXCEPT
                                 !.particle = St,
                                 !.self.candidates_score =
                                   IF /\ out.ok
                                      /\ IsAnyParticle(St)
                                      /\ IsNotScored(St, @)
                                   THEN DictSet(@, <<i, St>>, out.mean)
                                   ELSE @])
               /\ IF out.ok
                  THEN /\ self' = [self EXCEPT !.candidates_score =
                                     DictSet(@, <<i, S>>, out.mean)]
                       /\ i' = IF last THEN i ELSE i + 1
                       /\ pc' = IF last THEN "update" ELSE "evaluate"
                       /\ UNCHANGED error
                  ELSE /\ Raise("CollaboratorError")
                       /\ UNCHANGED <<self, i>>
          ELSE /\ i' = IF last THEN i ELSE i + 1
               /\ pc' = IF last THEN "update" ELSE "evaluate"
               /\ twin' = IF IsNone(twin) THEN None
                          ELSE LET t == Val(twin) IN
                               Some([t EXCEPT !.particle =
                                       Decode(t.particles[i], th)])
               /\ UNCHANGED <<error, self, cv_calls>>
  /\ UNCHANGED <<args, particles, velocities, global_best,
                 global_best_particle, counts, first, best_decode, stdout>>

\* the global best after _update_global_best(results, gb, gbp) on the
\* non-empty record cs
UpdatedBest(cs, gb, gbp) ==
  IF \/ IsGlobalBestNotDefined(gb, gbp)
     \/ IsCurrentParticleBetter(gb, MaxScoreOf(cs))
  THEN [global_best |-> Some(MaxScoreOf(cs)),
        global_best_particle |-> Some(IdxMax(cs))]
  ELSE [global_best |-> gb, global_best_particle |-> gbp]

\* results = DataFrame(candidates_score); _update_global_best(results, ...).
\* On an empty record idxmax raises ValueError, or (other pandas versions)
\* yields NaN, on which global_best_particle[0] then raises TypeError in
\* _calculate_velocities, after its print.
UpdateGlobalBest ==
  /\ pc = "update"
  /\ IF self.candidates_score = <<>>
     THEN /\ \E kind \in {"ValueError", "TypeError"} :
               LET lines == IF kind = "TypeError" THEN 2 ELSE 1 IN
               /\ Raise(kind)
               /\ stdout' = stdout + Printed(self.verbosity, lines)
               /\ twin' = IF IsNone(twin) THEN None
                          ELSE LET t == Val(twin) IN
                               Some([t EXCEPT !.stdout =
                                       @ + Printed(t.self.verbosity, lines)])
          /\ UNCHANGED <<global_best, global_best_particle, thresholds,
                         best_decode>>
     ELSE LET new == UpdatedBest(self.candidates_score, global_best,
                                 global_best_particle)
              replaced == \/ IsGlobalBestNotDefined(global_best,
                                                    global_best_particle)
                          \/ IsCurrentParticleBetter(global_best,
                               MaxScoreOf(self.candidates_score))
          IN
          /\ global_best' = new.global_best
          /\ global_best_particle' = new.global_best_particle
          /\ best_decode' =
               IF ~ IsNone(thresholds) /\ replaced
               THEN Some([threshold |->
                            Val(thresholds)[Val(new.global_best_particle)[1] + 1],
                          pass |-> counts.passes])
               ELSE best_decode
          /\ thresholds' = IF IsNone(thresholds) THEN None ELSE Some(<<>>)
          /\ stdout' = stdout + Printed(self.verbosity, 1)
          /\ twin' = IF IsNone(twin) THEN None
                     ELSE LET t == Val(twin) IN
                          IF t.self.candidates_score = <<>>
                          THEN Some([t EXCEPT !.stdout =
                                       @ + Printed(t.self.verbosity, 1)])
                          ELSE LET tn == UpdatedBest(t.self.candidates_score,
                                           t.global_best, t.global_best_particle)
                               IN Some([t EXCEPT
                                    !.global_best = tn.global_best,
                                    !.global_best_particle =
                                       tn.global_best_particle,
                                    !.stdout = @ + Printed(t.self.verbosity, 1)])
          /\ pc' = "velocities"
          /\ UNCHANGED error
  /\ UNCHANGED <<args, self, particles, velocities, i, particle, cv_calls,
                 decoded, counts, first>>

\* velocities = _calculate_velocities(particles, gbp, self.n_iter); the
\* print of the finished iteration; self.n_iter -= 1
CalculateVelocities ==
  /\ pc = "velocities"
  /\ velocities' = VelocitiesOf(particles, global_best_particle, self.n_iter)
  /\ self' = [self EXCEPT !.n_iter = @ - 1]
  /\ counts' = [counts EXCEPT !.passes = @ + 1]
  /\ stdout' = stdout + Printed(self.verbosity, 2)
  /\ twin' = IF IsNone(twin) THEN None
             ELSE LET t == Val(twin) IN
                  Some([t EXCEPT
                    !.velocities = VelocitiesOf(t.particles,
                                     t.global_best_particle, t.self.n_iter),
                    !.self.n_iter = @ - 1,
                    !.stdout = @ + Printed(t.self.verbosity, 2)])
  /\ pc' = "loop"
  /\ UNCHANGED <<args, error, particles, global_best, global_best_particle,
                 i, particle, cv_calls, decoded, first, thresholds,
                 best_decode>>

\* mutant: the addition is the last statement of the loop body, so the
\* velocities of the last pass are applied before the result is read
Finish_AppliesLast ==
  /\ pc = "loop"
  /\ ~ (self.n_iter > 0)
  /\ ~ IsNone(global_best_particle)
  /\ particles' = AddMatrix(particles, velocities)
  /\ self' = [self EXCEPT
         !.best_proba_ = Some(ProbaOf(particles', global_best_particle)),
         !.best_features_ = Some(Val(global_best_particle)[2]),
         !.best_score_ = global_best]
  /\ pc' = "done"
  /\ UNCHANGED <<args, error, velocities, global_best, global_best_particle,
                 i, particle, history, stdout, twin>>

\* after the loop: best_proba_, best_features_, best_score_
Finish ==
  /\ pc = "loop"
  /\ ~ (self.n_iter > 0)
  /\ IF IsNone(global_best_particle)
     THEN \* None[0]
          /\ Raise("TypeError")
          /\ UNCHANGED <<self, first, twin>>
     ELSE /\ self' = [self EXCEPT
                 !.best_proba_ = Some(ProbaOf(particles, global_best_particle)),
                 !.best_features_ = Some(Val(global_best_particle)[2]),
                 !.best_score_ = global_best]
          /\ twin' = IF IsNone(twin) THEN None
                     ELSE LET t == Val(twin) IN
                          IF IsNone(t.global_best_particle) THEN twin
                          ELSE Some([t EXCEPT
                                 !.self.best_proba_ = Some(ProbaOf(t.particles,
                                                    t.global_best_particle)),
                                 !.self.best_features_ =
                                    Some(Val(t.global_best_particle)[2]),
                                 !.self.best_score_ = t.global_best])
          /\ first' = IF counts.fit_calls = 1
                      THEN [first EXCEPT !.result =
                              Some([score |-> self'.best_score_,
                                    features |-> self'.best_features_,
                                    proba |-> self'.best_proba_])]
                      ELSE first
          /\ pc' = "done"
          /\ UNCHANGED error
  /\ UNCHANGED <<args, locals, cv_calls, decoded, counts, thresholds,
                 best_decode, stdout>>

\* the caller empties the cache between two calls of fit
ResetCache ==
  /\ pc = "done"
  /\ self.candidates_score # <<>>
  /\ self' = [self EXCEPT !.candidates_score = <<>>]
  /\ twin' = IF IsNone(twin) THEN None
             ELSE Some([Val(twin) EXCEPT !.self.candidates_score = <<>>])
  /\ cv_calls' = NoCalls
  /\ first' = [first EXCEPT !.reset = TRUE]
  /\ UNCHANGED <<args, pc, error, locals, decoded, counts, thresholds,
                 best_decode, stdout>>

Next ==
  \/ Construct
  \/ FitInitialize
  \/ ApplyVelocities
  \/ EvaluateParticle
  \/ UpdateGlobalBest
  \/ CalculateVelocities
  \/ Finish
  \/ ResetCache

Spec == Init /\ [][Next]_vars

\* the end-to-end scenario: 3 particles, 4 features, a budget of 2 and the
\* scoring stub sum(selected_indices)/10
E2EArgs ==
  [n_particles |-> Int_(3), estimator |-> "stub", cv |-> Int_(2),
   scoring |-> Other("str"), max_iter |-> Int_(2), n_jobs |-> Int_(-1),
   verbosity |-> Int_(0), X |-> [type |-> "ndarray", n_features |-> 4]]

\* fit is one sequential call: it takes its next step whenever it has one
FairSpec == Spec /\ WF_vars(Next)

InitE2E == InitWith(E2EArgs)

SpecE2E == InitE2E /\ [][Next]_vars

\* two runs side by side on the same arguments but for the verbosity
InitTwin ==
  \E a \in ArgSpace :
    /\ IsInt(a.verbosity)
    /\ InitRun(a)
    /\ thresholds = None
    /\ twin = Some(NewTwin(1 - a.verbosity.val))

SpecTwin == InitTwin /\ [][Next]_vars

\* a run whose threshold draws are traced
InitTraced == \E a \in ArgSpace : InitRun(a) /\ thresholds = Some(<<>>) /\ twin = None

SpecTraced == InitTraced /\ [][Next]_vars


\* the grid is fine enough: every division of _calculate_velocities is exact
DivisionExact ==
  pc = "velocities" =>
    \A r \in DOMAIN particles : \A c \in DOMAIN particles[r] :
      (particles[Val(global_best_particle)[1]][c] - particles[r][c]) % self.n_iter = 0

\* ------------------------------------------------------------- claims

\* the call of fit has ended, by returning or by raising
Ended == pc \in {"done", "raised"}

\* the call ended in an exception of cross_val_score itself
CollaboratorFailed == error = Some("CollaboratorError")

\* the configuration the interface asks for: positive particle count and
\* budget, at least two folds
PositiveConfig == self.n_particles >= 1 /\ self.first_iter >= 1 /\ self.cv >= 2

\* the FitResult attributes
FitResult ==
  [score |-> self.best_score_, features |-> self.best_features_,
   proba |-> self.best_proba_]

\* C1: memoization.  A step that invokes cross_val_score for row i and
\* subset S is never taken when a score is already recorded under (i, S).
C1_NoRescoring ==
  [][(PositiveConfig /\ cv_calls'.n > cv_calls.n) =>
       ~ HasKey(self.candidates_score, <<i, cv_calls'.columns>>)]_vars

\* C2: every decoded subset that is non-empty (the subset <<0>> included)
\* and has no recorded score is scored in that pass: cross_val_score is
\* invoked on exactly its columns and, unless it raises, the mean is
\* recorded under (i, S).
C2_ScoresEveryNonEmpty ==
  [][(/\ pc = "evaluate"
      /\ PositiveConfig
      /\ particle' # <<>>
      /\ ~ HasKey(self.candidates_score, <<i, particle'>>))
     => /\ cv_calls'.n = cv_calls.n + 1
        /\ cv_calls'.columns = particle'
        /\ pc' # "raised" => HasKey(self'.candidates_score, <<i, particle'>>)]_vars

\* C3: no call of cross_val_score is made with zero selected columns.
C3_EmptyNeverScored == cv_calls.n > 0 => cv_calls.columns # <<>>

\* a row decoded to the empty subset in a pass in which another row was scored
C3_Witness ==
  /\ pc = "update"
  /\ self.n_particles > 1
  /\ particle = <<>>
  /\ cv_calls.n > 0

\* the maximum of the scores recorded in cs
RecordMax(cs) ==
  CHOOSE m \in {cs[k].score : k \in 1..Len(cs)} :
    \A k \in 1..Len(cs) : cs[k].score <= m

\* C4: GlobalBest starts undefined; an update step replaces it by a key
\* holding the maximum recorded score exactly when it was undefined or that
\* maximum strictly exceeds the stored score, and otherwise leaves it as it
\* is; so within a fit the score never decreases and the identity changes
\* only when the score strictly increases.
C4_GlobalBestUpdate ==
  [][/\ (pc = "loop" /\ counts.passes = 0)
          => (IsNone(global_best) /\ IsNone(global_best_particle))
     /\ (pc = "update" /\ pc' = "velocities") =>
          LET cs == self.candidates_score
              m == RecordMax(cs)
          IN IF IsNone(global_best) \/ Val(global_best) < m
             THEN /\ global_best' = Some(m)
                  /\ ~ IsNone(global_best_particle')
                  /\ \E k \in 1..Len(cs) :
                       /\ cs[k].key = Val(global_best_particle')
                       /\ cs[k].score = m
             ELSE UNCHANGED <<global_best, global_best_particle>>
     /\ (~ IsNone(global_best) /\ pc \notin {"idle", "done"}) =>
          /\ ~ IsNone(global_best')
          /\ Val(global_best') >= Val(global_best)
          /\ global_best_particle' # global_best_particle
               => Val(global_best') > Val(global_best)]_vars

\* a second update that kept a GlobalBest which is no longer the first
\* maximum of the record
C4_Witness ==
  /\ pc = "velocities"
  /\ counts.passes >= 1
  /\ global_best_particle # Some(IdxMax(self.candidates_score))

\* C5: a second fit on the same instance and the same X, with the same draws
\* and the cache emptied in between, ends as the first did and exposes the
\* same FitResult.
C5_FitIdempotent ==
  (/\ PositiveConfig
   /\ counts.fit_calls = 2
   /\ args.X.type = "ndarray"
   /\ first.reset
   /\ Ended)
    => (pc = "done" /\ Some(FitResult) = first.result)

\* C6: a fit that entered its loop ends after exactly max_iter passes with
\* the counter at zero, whatever was decoded or scored (a failure of the
\* collaborator itself set aside).
C6_FixedLength ==
  (/\ PositiveConfig
   /\ counts.fit_calls = 1
   /\ counts.applied > 0
   /\ Ended
   /\ ~ CollaboratorFailed)
    => (counts.passes = self.first_iter /\ self.n_iter = 0)

\* C7: with one particle and a budget of one, fit makes one velocity
\* application and one evaluation pass and returns; FitResult is populated
\* if the particle decoded to a non-empty subset and undefined otherwise.
C7_Boundary ==
  (/\ self.n_particles = 1
   /\ self.first_iter = 1
   /\ self.cv >= 2
   /\ counts.fit_calls = 1
   /\ counts.applied > 0
   /\ Ended
   /\ ~ CollaboratorFailed)
    => /\ pc = "done"
       /\ counts.applied = 1
       /\ counts.passes = 1
       /\ particle # <<>> <=> ~ IsNone(self.best_score_)


\* C8: end to end, with the scoring stub: when fit has ended after decoding
\* at least one non-empty subset, the exposed best score is the maximum stub
\* score over every subset decoded in the run.
C8_BestOfDecoded ==
  (/\ self.estimator = "stub"
   /\ PositiveConfig
   /\ counts.fit_calls = 1
   /\ Ended
   /\ ~ IsNone(decoded))
    => self.best_score_ = decoded

\* where fit returns normally, C8's equality holds
C8_HoldsOnReturn ==
  (self.estimator = "stub" /\ counts.fit_calls = 1 /\ pc = "done")
    => self.best_score_ = decoded


\* the first fit has scored at least one subset
ScoredSome == counts.fit_calls = 1 /\ self.candidates_score # <<>>

\* C9: once a subset has been scored, fit ends (a failure of the
\* collaborator itself set aside) by returning after exactly the budget of
\* passes, with best_score_ the GlobalBest score, best_features_ the
\* GlobalBest subset and best_proba_ the winning row restricted to it.
C9_DefinedFitResult ==
  /\ [](( ScoredSome /\ Ended /\ ~ CollaboratorFailed) =>
          /\ pc = "done"
          /\ counts.passes = self.first_iter
          /\ ~ IsNone(global_best)
          /\ self.best_score_ = global_best
          /\ self.best_features_ = Some(Val(global_best_particle)[2])
          /\ LET row == Val(global_best_particle)[1]
                 S == Val(global_best_particle)[2]
             IN /\ Len(Val(self.best_proba_)) = Len(S)
                /\ \A k \in 1..Len(S) :
                     Val(self.best_proba_)[k] = particles[row][S[k]])
  /\ (ScoredSome /\ ~ Ended) ~> Ended

\* fit returned a subset of two features won by a row other than the first,
\* whose probabilities differ from the first row's
C9_Witness ==
  /\ ScoredSome
  /\ pc = "done"
  /\ Val(global_best_particle)[1] # 0
  /\ Len(Val(self.best_features_)) >= 2
  /\ particles[0] # particles[Val(global_best_particle)[1]]

PositiveInt(x) == x.type = "int" /\ x.val > 0

C11_RejectsX ==
  [][(/\ pc \in {"idle", "done"}
      /\ counts'.fit_calls > counts.fit_calls
      /\ args'.X.type \notin {"DataFrame", "ndarray"})
     => /\ pc' = "raised"
        /\ error' = Some("ValueError")
        /\ self' = self
        /\ UNCHANGED <<particles, velocities, particle, cv_calls, thresholds,
                       decoded>>]_vars

\* a fit on a list was rejected after a fit on an array had returned, and
\* the record and the FitResult of that first fit are still there
C11_Witness ==
  /\ pc = "raised"
  /\ counts.fit_calls = 2
  /\ args.X.type = "list"
  /\ self.candidates_score # <<>>
  /\ ~ IsNone(self.best_score_)
  /\ ~ IsNone(self.best_proba_)
  /\ self.n_iter = 0

\* C12: when a call of cross_val_score raises, in whatever pass and for
\* whatever row, fit ends there with that exception: the step records
\* nothing and does not move on to another row, no step follows it, and the
\* FitResult attributes are not set.
C12_CollaboratorFatal ==
  /\ [](cv_calls.failed =>
          /\ pc = "raised"
          /\ error = Some("CollaboratorError")
          /\ IsNone(self.best_score_)
          /\ IsNone(self.best_features_)
          /\ IsNone(self.best_proba_))
  /\ [][/\ (cv_calls'.n > cv_calls.n /\ cv_calls'.failed) =>
             /\ self' = self
             /\ i' = i
             /\ UNCHANGED <<particles, velocities, global_best,
                            global_best_particle, counts>>
        /\ cv_calls.failed => UNCHANGED vars]_vars

\* the call for the second row failed in the second pass, after three
\* calls had succeeded
C12_Witness ==
  /\ cv_calls.failed
  /\ cv_calls.n = 4
  /\ counts.passes = 1
  /\ i = 1
  /\ Len(self.candidates_score) >= 2
  /\ ~ IsNone(global_best)

\* the second run is where the first run is: same matrices, same record,
\* same global best, same countdown and same FitResult attributes
TwinAgrees ==
  LET t == Val(twin) IN
  /\ t.particles = particles
  /\ t.velocities = velocities
  /\ t.particle = particle
  /\ t.global_best = global_best
  /\ t.global_best_particle = global_best_particle
  /\ t.self.candidates_score = self.candidates_score
  /\ t.self.n_iter = self.n_iter
  /\ t.self.best_score_ = self.best_score_
  /\ t.self.best_features_ = self.best_features_
  /\ t.self.best_proba_ = self.best_proba_

\* C13: two runs that differ only in the verbosity and are given the same
\* draws and the same scores go through the same particle matrices,
\* velocities, records and global bests, step by step, and expose the same
\* FitResult.
C13_VerbosityObservational ==
  (~ IsNone(twin) /\ pc # "new") =>
     /\ Val(twin).self.verbosity # self.verbosity \/ pc = "raised"
     /\ TwinAgrees

\* a verbose run and a silent one have returned after two passes: one has
\* printed eleven lines, the other none, and a subset was selected
C13_Witness ==
  /\ ~ IsNone(twin)
  /\ pc = "done"
  /\ counts.passes = 2
  /\ {stdout, Val(twin).stdout} = {0, 11}
  /\ ~ IsNone(self.best_proba_)
  /\ particles # first.draw[1]

\* the matrix m has the rows 0..n-1 and in each row the columns 0..f-1
HasShape(m, n, f) ==
  /\ DOMAIN m = Rows(n)
  /\ \A r \in Rows(n) : DOMAIN m[r] = 0..(f - 1)

\* fit is past _initialize and has not raised
InFit == pc \in {"loop", "evaluate", "update", "velocities", "done"}

\* C14: from _initialize on and after every pass the particle matrix and
\* the velocity matrix have n_particles rows and X.shape[1] columns; a step
\* of a pass leaves every cell of the particle matrix in its row and column:
\* it keeps the cell or adds to it the velocity cell of the same row and
\* column.
C14_ShapeInvariant ==
  /\ [](InFit => /\ HasShape(particles, self.n_particles, NFeatures)
                 /\ HasShape(velocities, self.n_particles, NFeatures))
  /\ [][(InFit /\ pc # "done" /\ pc' # "raised") =>
          \A r \in Rows(self.n_particles) : \A c \in 0..(NFeatures - 1) :
            \/ particles'[r][c] = particles[r][c]
            \/ /\ pc = "loop"
               /\ particles'[r][c] = particles[r][c] + velocities[r][c]]_vars

\* a swarm of two particles over three features has finished a pass, and
\* the recomputed velocity is not zero
C14_Witness ==
  /\ pc = "loop"
  /\ counts.passes = 1
  /\ self.n_particles = 2
  /\ NFeatures = 3
  /\ velocities # Zeros(2, 3)
  /\ HasShape(velocities, 2, 3)

\* C15: the order of a pass.  With the countdown above zero the first step
\* adds the velocities to the particles (the zero matrix in the first pass);
\* the evaluation then runs on these particles, the global best is updated
\* from the record, the velocities are recomputed with the countdown as it
\* still is and only then the countdown goes down by one; when the
\* countdown is zero fit reads its result without adding the velocities
\* computed last.
C15_PassOrder ==
  [][/\ (pc = "loop" /\ self.n_iter > 0) =>
          /\ pc' \in {"evaluate", "update"}
          /\ \A r \in DOMAIN particles : \A c \in DOMAIN particles[r] :
               particles'[r][c] = particles[r][c] + velocities[r][c]
          /\ counts.applied = 0 => particles' = particles
          /\ UNCHANGED <<velocities, self, global_best, global_best_particle>>
     /\ pc = "evaluate" =>
          /\ pc' \in {"evaluate", "update", "raised"}
          /\ self'.n_iter = self.n_iter
          /\ UNCHANGED <<particles, velocities, global_best,
                         global_best_particle>>
     /\ pc = "update" =>
          /\ pc' \in {"velocities", "raised"}
          /\ pc' = "velocities" =>
               /\ ~ IsNone(global_best_particle')
               /\ HasKey(self.candidates_score, Val(global_best_particle'))
          /\ UNCHANGED <<particles, velocities, self>>
     /\ pc = "velocities" =>
          /\ pc' = "loop"
          /\ \A r \in DOMAIN particles : \A c \in DOMAIN particles[r] :
               velocities'[r][c] * self.n_iter =
                 particles[Val(global_best_particle)[1]][c] - particles[r][c]
          /\ self'.n_iter = self.n_iter - 1
          /\ UNCHANGED <<particles, global_best, global_best_particle>>
     /\ (pc = "loop" /\ ~ (self.n_iter > 0)) =>
          /\ pc' \in {"done", "raised"}
          /\ counts.applied = counts.passes
          /\ UNCHANGED <<particles, velocities>>]_vars

\* fit has returned after two passes and the velocities computed in the
\* second are not zero: they were not added
C15_Witness ==
  /\ pc = "done"
  /\ counts.applied = 2
  /\ counts.passes = 2
  /\ self.n_iter = 0
  /\ velocities # Zeros(self.n_particles, NFeatures)
  /\ particles # first.draw[1]

\* the squared length of the velocity row v
RECURSIVE SumSquares(_, _)
SumSquares(v, f) == IF f = 0 THEN 0 ELSE v[f - 1] * v[f - 1] + SumSquares(v, f - 1)
Magnitude(v) == SumSquares(v, NFeatures)

\* the velocities are recomputed in a pass after the first, and the global
\* best is the one the previous velocities were computed with
RecomputedForSameBest ==
  /\ pc = "velocities"
  /\ pc' = "loop"
  /\ PositiveConfig
  /\ counts.passes >= 1
  /\ ~ IsNone(best_decode)
  /\ Val(best_decode).pass < counts.passes

\* C16: while the global best is unchanged, the velocity row computed in a
\* later pass for a particle on its way to the global best is strictly
\* shorter than the row computed for it in the pass before.
C16_StepShrinks ==
  [][RecomputedForSameBest =>
       \A r \in Rows(self.n_particles) :
         (r # Val(global_best_particle)[1] /\ Magnitude(velocities[r]) > 0)
           => Magnitude(velocities'[r]) < Magnitude(velocities[r])]_vars

\* C16 as amended: while the global best is unchanged, the velocity row
\* computed in a later pass is equal to the row computed in the pass
\* before: the step keeps its size, the distance left and the divisor
\* shrinking together.
C16_StepConstant ==
  [][RecomputedForSameBest =>
       \A r \in Rows(self.n_particles) : velocities'[r] = velocities[r]]_vars

\* the second pass has kept the global best of the first and recomputed a
\* velocity that is not zero
C16_Witness ==
  /\ pc = "loop"
  /\ PositiveConfig
  /\ counts.passes = 2
  /\ ~ IsNone(best_decode)
  /\ Val(best_decode).pass = 0
  /\ \E r \in Rows(self.n_particles) :
       /\ r # Val(global_best_particle)[1]
       /\ Magnitude(velocities[r]) > 0

\* C17: the velocity update of a pass with countdown k gives every row p the
\* velocity (best_row - row_p) / k, best_row being the row, as it is now, of
\* the particle global_best_particle names; the row of that particle gets
\* the zero vector; nothing else enters the result.
C17_VelocityRule ==
  [][(pc = "velocities" /\ pc' = "loop") =>
       LET k == self.n_iter
           best_row == particles[Val(global_best_particle)[1]]
       IN /\ k >= 1
          /\ \A r \in Rows(self.n_particles) : \A c \in 0..(NFeatures - 1) :
               k * velocities'[r][c] = best_row[c] - particles[r][c]
          /\ \A c \in 0..(NFeatures - 1) :
               velocities'[Val(global_best_particle)[1]][c] = 0]_vars

\* the second pass has made the second row the global best: its velocity
\* is zero, the first row's is not, and the velocity of the first pass was
\* another one
C17_Witness ==
  /\ pc = "loop"
  /\ counts.passes = 2
  /\ Val(global_best_particle)[1] = 1
  /\ velocities[0] # velocities[1]
  /\ \E c \in 0..(NFeatures - 1) : velocities[0][c] < 0
  /\ particles[1] = first.draw[1][1]
  /\ particles[0] # first.draw[1][0]

\* the tuple of the column indices in T, in column order
AsTuple(T) ==
  CHOOSE S \in [1..Cardinality(T) -> T] :
    \A j, k \in 1..Cardinality(T) : j < k => S[j] < S[k]

\* every subset a row can decode to
FeatureSubsets == {AsTuple(T) : T \in SUBSET (0..(NFeatures - 1))}

DrawRange == {(Unit * k) \div NumThresholds : k \in 0..(NumThresholds - 1)}

\* C19: decoding.  The evaluation of a row draws one threshold, and the
\* decoded subset holds exactly the columns whose probability is at least
\* that threshold, in column order and once each, so that row and threshold
\* determine it; the draw is a fresh one for every row of every pass:
\* whatever was drawn before, every value can be drawn.
C19_Decoding ==
  /\ [][pc = "evaluate" =>
          LET th == Val(thresholds')[Len(Val(thresholds'))]
              S == particle'
          IN /\ Len(Val(thresholds')) = Len(Val(thresholds)) + 1
             /\ Len(Val(thresholds')) = i + 1
             /\ \A c \in 0..(NFeatures - 1) :
                  (\E k \in 1..Len(S) : S[k] = c) <=> particles[i][c] >= th
             /\ \A j, k \in 1..Len(S) : j < k => S[j] < S[k]]_vars
  /\ [](pc = "evaluate" =>
          \A th \in DrawRange :
            ENABLED (/\ EvaluateParticle
                     /\ thresholds' = Some(Append(Val(thresholds), th))))

\* in the second pass the first row was decoded against the highest
\* threshold and the second against another: the second row, moved in this
\* pass, decodes to its second column only
C19_Witness ==
  /\ pc = "update"
  /\ counts.passes = 1
  /\ Len(Val(thresholds)) = 2
  /\ Val(thresholds)[1] = (Unit * (NumThresholds - 1)) \div NumThresholds
  /\ Val(thresholds)[2] # Val(thresholds)[1]
  /\ particles[1] # first.draw[1][1]
  /\ particle = <<1>>

\* the row of the particle matrix that global_best_particle names
BestRow == particles[Val(global_best_particle)[1]]

\* C20: the particle that holds the global best stays where its subset was
\* decoded.  No velocity application changes the row named by
\* global_best_particle; at any time its subset holds exactly the columns of
\* that row that are at least the threshold drawn when the subset was
\* decoded; and when fit returns best_proba_ holds these values of the row,
\* each at least that threshold.
C20_BestStays ==
  /\ [][(pc = "loop" /\ pc' \in {"evaluate", "update"}
           /\ ~ IsNone(global_best_particle))
          => particles'[Val(global_best_particle)[1]] = BestRow]_vars
  /\ []((~ IsNone(global_best_particle) /\ ~ IsNone(thresholds)) =>
          /\ ~ IsNone(best_decode)
          /\ LET S == Val(global_best_particle)[2]
                 th == Val(best_decode).threshold
             IN /\ \A c \in 0..(NFeatures - 1) :
                     (\E k \in 1..Len(S) : S[k] = c) <=> BestRow[c] >= th
                /\ pc = "done" =>
                     /\ Len(Val(self.best_proba_)) = Len(S)
                     /\ \A k \in 1..Len(S) :
                          /\ Val(self.best_proba_)[k] = BestRow[S[k]]
                          /\ Val(self.best_proba_)[k] >= th)

\* fit has returned the subset the second row was decoded to in the first
\* pass, against a threshold that left a column out; the first row has
\* moved in the second pass
C20_Witness ==
  /\ pc = "done"
  /\ counts.passes = 2
  /\ ~ IsNone(best_decode)
  /\ Val(best_decode).pass = 0
  /\ Val(best_decode).threshold > 0
  /\ Val(global_best_particle)[1] = 1
  /\ Len(Val(self.best_proba_)) < NFeatures
  /\ particles[0] # first.draw[1][0]
  /\ particles[1] = first.draw[1][1]

\* the score recorded in cs under the key it holds
ScoreUnder(cs, key) ==
  LET k == CHOOSE j \in 1..Len(cs) : cs[j].key = key IN cs[k].score

\* a pass has just ended
AfterPass == pc = "loop" /\ counts.passes >= 1

\* the global best is a key of the record, its score is the score recorded
\* under that key, and no recorded score is higher
BestAgreesWithRecord ==
  /\ ~ IsNone(global_best_particle)
  /\ ~ IsNone(global_best)
  /\ HasKey(self.candidates_score, Val(global_best_particle))
  /\ Val(global_best) = ScoreUnder(self.candidates_score, Val(global_best_particle))
  /\ Val(global_best) = RecordMax(self.candidates_score)

\* C21: after every pass, whatever cross_val_score returns (different
\* scores on repeated calls for the same columns included), the global best
\* is a key of the record, its score is the one recorded under that key and
\* this is the maximum of the recorded scores.
C21_BestAgreesWithRecord ==
  (AfterPass /\ PositiveConfig) => BestAgreesWithRecord

\* with a collaborator that returns the same score for the same columns,
\* C21's agreement holds
C21_HoldsForStub ==
  (AfterPass /\ PositiveConfig /\ self.estimator = "stub") => BestAgreesWithRecord

\* whatever the collaborator, the global best stays a key of the record and
\* its score is never below a recorded one
C21_KeyAndBound ==
  AfterPass =>
    /\ HasKey(self.candidates_score, Val(global_best_particle))
    /\ Val(global_best) >= RecordMax(self.candidates_score)

====
